---- MODULE Spec2Model ----
(***************************************************************************)
(* Convergence controller of one ceph-nfs unit (src/src/charm.py,          *)
(* class CephNfsCharm).  One unit is modelled in full; its peers and the   *)
(* Juju runtime are the environment: they make the pool fact available,    *)
(* move leadership, set the peer latch, bump the reload nonce and deliver  *)
(* facts (at least once, in any order between fact kinds).                 *)
(*                                                                         *)
(* A fact is dispatched to the handlers registered for it in __init__, in  *)
(* registration order.  Each handler run is one action.  A run ends        *)
(*   "ok"            the handler returned,                                 *)
(*   "deferred"      the handler called event.defer() and returned,        *)
(*   "action_failed" the handler called event.fail(...) and returned,      *)
(*   "failed"        an exception left the handler (the hook errors).      *)
(* Every external command a run issues is recorded, in order and with its  *)
(* result, in last.calls.                                                  *)
(***************************************************************************)
EXTENDS Integers, Sequences, FiniteSets, TLC

\* ------------------------------------------------------------- bounds
MaxNonce == 2       \* the reload nonce is followed up to this value
MaxShares == 1      \* shares this unit creates
MaxContent == 1     \* distinct rendered contents of one config file

\* ---------------------------------------------------- program constants
CounterSeed == 1000                       \* counter.write('1000')

GANESHA_CONF == "ganesha.conf"
CEPH_CONF == "ceph.conf"
GANESHA_KEYRING == "ceph.keyring"
SERVICES == <<"nfs-ganesha">>

\* RESTART_MAP: config file -> services to restart when it changes
RESTART_MAP ==
  [f \in {GANESHA_CONF, CEPH_CONF, GANESHA_KEYRING} |-> SERVICES]

\* RESTART_MAP.keys(), in the order the dict literal lists them
RestartMapKeys == <<GANESHA_CONF, CEPH_CONF, GANESHA_KEYRING>>

Files == DOMAIN RESTART_MAP

Absent == 0                               \* the file does not exist
Contents == 1..MaxContent

NotLeaderMessage == "Share creation needs to be run from the application leader"
ShareCreatedMessage == "Share created"

\* ------------------------------------------------------------- state
VARIABLES
  is_started,        \* _stored.is_started
  is_cluster_setup,  \* _stored.is_cluster_setup
  broker_available,  \* ceph_client.broker_available
  pool_requested,    \* the pool and permission requests were sent to the broker
  pools_available,   \* ceph_client.pools_available
  is_leader,         \* model.unit.is_leader()
  pool_initialised,  \* peer fact: the bootstrap latch
  reload_nonce,      \* peer fact: the reload nonce
  in_grace,          \* this hostname is in the grace membership
  departed,          \* this unit has handled a departing fact
  reloaded,          \* a reload was signalled since the nonce last changed
  index_obj,         \* ganesha-export-index in the pool: "absent" | "empty"
  counter_obj,       \* ganesha-export-counter in the pool: 0 (absent) | value
  shares,            \* shares created by this unit
  files,             \* on-disk content of each tracked config file
  queue,             \* notices of the running dispatch still to be handled
  deferred,          \* handlers holding a deferred notice
  last               \* the handler run just finished (observation)

vars == <<is_started, is_cluster_setup, broker_available, pool_requested,
          pools_available, is_leader, pool_initialised, reload_nonce,
          in_grace, departed, reloaded, index_obj, counter_obj, shares,
          files, queue, deferred, last>>

stored == <<is_started, is_cluster_setup>>
peerfacts == <<pool_initialised, reload_nonce>>
pool == <<index_obj, counter_obj, shares>>
envfacts == <<pools_available, is_leader>>
broker == <<broker_available, pool_requested>>
history == <<departed, reloaded>>

\* ------------------------------------------------------------ helpers
\* One external command of a run: what was called, on what, and whether it
\* exited zero.
Call(cmd, arg, ok) == [cmd |-> cmd, arg |-> arg, ok |-> ok]

\* The state a handler starts from.
Snapshot ==
  [is_started |-> is_started, is_cluster_setup |-> is_cluster_setup,
   broker_available |-> broker_available,
   pools_available |-> pools_available,
   pool_initialised |-> pool_initialised, reload_nonce |-> reload_nonce,
   departed |-> departed, reloaded |-> reloaded,
   shares |-> shares, files |-> files]

NoResults == [message |-> "", path |-> 0, ip |-> ""]

\* No handler has just run.
Idle ==
  [handler |-> "none", outcome |-> "none", calls |-> <<>>, leader |-> FALSE,
   redelivered |-> FALSE,
   pre |-> [is_started |-> FALSE, is_cluster_setup |-> FALSE,
            broker_available |-> FALSE,
            pools_available |-> FALSE, pool_initialised |-> FALSE,
            reload_nonce |-> 0, departed |-> FALSE, reloaded |-> FALSE,
            shares |-> 0, files |-> [f \in Files |-> Absent]],
   results |-> NoResults]

\* The record of a finished run (of the notice at the head of the queue).
Ran(h, outcome, calls, results) ==
  [handler |-> h, outcome |-> outcome, calls |-> calls, leader |-> is_leader,
   redelivered |-> Head(queue).redelivered,
   pre |-> Snapshot, results |-> results]

\* The commands named cmd in a sequence of calls.
CallsOf(calls, cmd) == SelectSeq(calls, LAMBDA c : c.cmd = cmd)

Issued(calls, cmd) == Len(CallsOf(calls, cmd)) > 0

\* ----------------------------------------------------------- dispatch
\* Faulty variant: setup_ganesha is registered on pools_available ahead of
\* render_config
ObserversSetupFirst(fact) ==
  CASE fact = "broker_available" -> <<"request_ceph_pool">>
    [] fact = "config_changed" -> <<"request_ceph_pool">>
    [] fact = "pools_available" -> <<"setup_ganesha", "render_config">>
    [] fact = "upgrade_charm" -> <<"render_config">>
    [] fact = "pool_initialised" -> <<"on_pool_initialised">>
    [] fact = "departing" -> <<"on_departing">>
    [] fact = "reload_nonce" -> <<"on_reload_nonce">>
    [] fact = "create_share_action" -> <<"create_share_action">>

\* framework.observe(...) in __init__: the handlers of each fact, in
\* registration order.
Observers(fact) ==
  CASE fact = "broker_available" -> <<"request_ceph_pool">>
    [] fact = "config_changed" -> <<"request_ceph_pool">>
    [] fact = "pools_available" -> <<"render_config", "setup_ganesha">>
    [] fact = "upgrade_charm" -> <<"render_config">>
    [] fact = "pool_initialised" -> <<"on_pool_initialised">>
    [] fact = "departing" -> <<"on_departing">>
    [] fact = "reload_nonce" -> <<"on_reload_nonce">>
    [] fact = "create_share_action" -> <<"create_share_action">>

Facts == {"broker_available", "config_changed", "pools_available",
          "upgrade_charm", "pool_initialised", "departing", "reload_nonce",
          "create_share_action"}

\* The handlers that can call event.defer(), in registration order.
Deferrers == <<"render_config", "setup_ganesha", "on_pool_initialised">>

Notice(h, redelivered) == [handler |-> h, redelivered |-> redelivered]

\* The deferred notices, redelivered ahead of a new fact's own notices.
Redelivered ==
  LET held == SelectSeq(Deferrers, LAMBDA h : h \in deferred)
  IN  [i \in 1..Len(held) |-> Notice(held[i], TRUE)]

Fresh(fact) ==
  [i \in 1..Len(Observers(fact)) |-> Notice(Observers(fact)[i], FALSE)]

\* Whether the runtime can deliver the fact now.
Deliverable(fact) ==
  CASE fact = "broker_available" -> broker_available
    [] fact = "pools_available" -> pools_available
    [] fact = "pool_initialised" -> pool_initialised
    [] fact = "reload_nonce" -> reload_nonce > 0
    [] OTHER -> TRUE

\* A fact arrives while no dispatch is running: the deferred notices are
\* re-emitted first, then the fact goes to its observers.
Emit(fact) ==
  /\ queue = <<>>
  /\ Deliverable(fact)
  /\ queue' = Redelivered \o Fresh(fact)
  /\ last' = Idle
  /\ UNCHANGED <<stored, peerfacts, pool, envfacts, broker, history, in_grace,
                 files, deferred>>

\* The next notice of the running dispatch is for handler h.
Handling(h) == queue # <<>> /\ Head(queue).handler = h

\* Faulty variant: a deferred notice is dropped like a handled one
FinishDropsDeferred(h, outcome) ==
  CASE outcome = "failed" ->
         queue' = <<>> /\ UNCHANGED deferred
    [] OTHER ->
         queue' = Tail(queue) /\ deferred' = deferred \ {h}

\* The end of a run of h: the notice is dropped, kept as deferred, or (an
\* exception) the dispatch is abandoned with the notices as they were.
Finish(h, outcome) ==
  CASE outcome = "failed" ->
         queue' = <<>> /\ UNCHANGED deferred
    [] outcome = "deferred" ->
         queue' = Tail(queue) /\ deferred' = deferred \cup {h}
    [] OTHER ->
         /\ queue' = Tail(queue)
         /\ deferred' = IF Head(queue).redelivered THEN deferred \ {h}
                        ELSE deferred

\* --------------------------------------------------- request_ceph_pool
\* if not self.ceph_client.broker_available: log and return
RequestGate == broker_available

\* What a run that finds the broker not available ends as: it logs "Cannot
\* request ceph setup at this time" and returns; event.defer() is not called.
RequestNotReadyOutcome == "ok"

\* create_replicated_pool(...) then request_ceph_permissions(...)
RequestCalls ==
  <<Call("create_replicated_pool", "ganesha", TRUE),
    Call("request_ceph_permissions", "", TRUE)>>

request_ceph_pool ==
  /\ Handling("request_ceph_pool")
  /\ \/ /\ ~RequestGate
        /\ last' = Ran("request_ceph_pool", RequestNotReadyOutcome, <<>>,
                       NoResults)
        /\ Finish("request_ceph_pool", RequestNotReadyOutcome)
        /\ UNCHANGED pool_requested
     \/ \* get_bluestore_compression raises ValueError: logged, return
        /\ RequestGate
        /\ last' = Ran("request_ceph_pool", "ok",
                       <<Call("get_bluestore_compression", "", FALSE)>>,
                       NoResults)
        /\ Finish("request_ceph_pool", "ok")
        /\ UNCHANGED pool_requested
     \/ /\ RequestGate
        /\ last' = Ran("request_ceph_pool", "ok",
                       <<Call("get_bluestore_compression", "", TRUE)>>
                         \o RequestCalls,
                       NoResults)
        /\ Finish("request_ceph_pool", "ok")
        /\ pool_requested' = TRUE
  /\ UNCHANGED <<stored, peerfacts, pool, envfacts, broker_available, history,
                 in_grace, files>>

\* ------------------------------------------------------ render_config
\* Faulty variant: rendering does not wait for the pool
RenderGateOpen == TRUE

\* if not self.ceph_client.pools_available: defer
RenderGate == pools_available

\* The files after the first k of RESTART_MAP.keys() were rendered with the
\* target contents (ch_templating.render writes the file).
Written(target, k) ==
  [f \in Files |->
     IF \E i \in 1..k : RestartMapKeys[i] = f THEN target[f] ELSE files[f]]

RenderCalls(k) == [i \in 1..k |-> Call("render", RestartMapKeys[i], TRUE)]

\* restart_on_change compares each path's hash before and after the call.
ChangedFiles(before, after) == {f \in Files : before[f] # after[f]}

\* Faulty variant: one restart per changed file: the services are not de-duplicated
ServicesListPerFile(changed) ==
  [i \in 1..Cardinality(changed) |-> SERVICES[1]]

\* restart_on_change: the services of the changed files as one ordered
\* list without duplicates.
ServicesList(changed) ==
  SelectSeq(SERVICES,
            LAMBDA s : \E f \in changed :
                         \E i \in DOMAIN RESTART_MAP[f] : RESTART_MAP[f][i] = s)

\* rfuncs is empty (daemon_reload_and_restart is never put into it), so
\* restart_on_change restarts each listed service with charmhelpers' own
\* service('restart', name), which returns the exit status as a boolean and
\* raises nothing.
RestartCalls(changed, ok) ==
  [i \in 1..Len(ServicesList(changed)) |->
     Call("restart", ServicesList(changed)[i], ok)]

\* What a restart command that exits non-zero inside _render_configs does to
\* the run: nothing, the run goes on (see RestartCalls).
RenderRestartOutcome(ok) == "ok"

\* self._stored.is_started = True, reached when _render_configs() returned
StartedAfterRender == TRUE

render_config ==
  /\ Handling("render_config")
  /\ \/ /\ ~RenderGate
        /\ last' = Ran("render_config", "deferred", <<>>, NoResults)
        /\ Finish("render_config", "deferred")
        /\ UNCHANGED <<stored, files>>
     \/ /\ RenderGate
        /\ \E target \in [Files -> Contents], k \in 1..Len(RestartMapKeys) :
             \* rendering the k-th file raises: nothing is restarted
             /\ files' = Written(target, k - 1)
             /\ last' = Ran("render_config", "failed",
                            Append(RenderCalls(k - 1),
                                   Call("render", RestartMapKeys[k], FALSE)),
                            NoResults)
             /\ Finish("render_config", "failed")
             /\ UNCHANGED stored
     \/ /\ RenderGate
        /\ \E target \in [Files -> Contents], restart_ok \in BOOLEAN :
             LET after == Written(target, Len(RestartMapKeys))
                 changed == ChangedFiles(files, after)
                 calls == RenderCalls(Len(RestartMapKeys))
                            \o RestartCalls(changed, restart_ok)
                 outcome == IF ServicesList(changed) = <<>> THEN "ok"
                            ELSE RenderRestartOutcome(restart_ok)
             IN  /\ files' = after
                 /\ last' = Ran("render_config", outcome, calls, NoResults)
                 /\ is_started' = IF outcome = "ok" THEN StartedAfterRender
                                  ELSE is_started
                 /\ Finish("render_config", outcome)
                 /\ UNCHANGED is_cluster_setup
  /\ UNCHANGED <<peerfacts, pool, envfacts, broker, history, in_grace>>

\* -------------------------------------------------------- on_departing
\* Faulty variant: the flag is left alone when the node has left
SetupAfterDepartingKept(ok) == is_cluster_setup

\* self._stored.is_cluster_setup after a run of on_departing whose
\* 'ganesha-rados-grace remove' exited zero (ok) or not: check_call raises
\* on a non-zero exit, before the assignment.
SetupAfterDeparting(ok) == IF ok THEN FALSE ELSE is_cluster_setup

on_departing ==
  /\ Handling("on_departing")
  /\ \E ok \in BOOLEAN :
       /\ in_grace' = IF ok THEN FALSE ELSE in_grace
       /\ is_cluster_setup' = SetupAfterDeparting(ok)
       /\ last' = Ran("on_departing", IF ok THEN "ok" ELSE "failed",
                      <<Call("grace", "remove", ok)>>, NoResults)
       /\ Finish("on_departing", IF ok THEN "ok" ELSE "failed")
  /\ departed' = TRUE
  /\ UNCHANGED <<is_started, peerfacts, pool, envfacts, broker, reloaded,
                 files>>

\* -------------------------------------------------------- setup_ganesha
\* Faulty variant: the stored flag is not consulted before joining
JoinGateOpen == TRUE

\* if not self._stored.is_cluster_setup: grace add
JoinGate == ~is_cluster_setup

\* self._stored.is_cluster_setup = True, after check_call returned
SetupAfterJoin(add_ok) == IF add_ok THEN TRUE ELSE is_cluster_setup

\* Faulty variant: the exit code of the add is not looked at
JoinedAnyway(add_ok) == TRUE

\* The handler gets past the join: the unit had joined already, or
\* check_call of the add returned.
Joined(add_ok) == ~JoinGate \/ add_ok

\* if not self.model.unit.is_leader(): return
\* Faulty variant: every unit bootstraps
BootstrapGateOpen == TRUE

BootstrapGate == is_leader

\* self.peers.initialised_pool(): sets the peer latch
initialised_pool == TRUE

\* Faulty variant: the counter is put first, then the index
BootstrapCallsCounterFirst(idx_ok, cnt_ok) ==
  IF cnt_ok
    THEN <<Call("put", "ganesha-export-counter", TRUE),
           Call("put", "ganesha-export-index", idx_ok)>>
    ELSE <<Call("put", "ganesha-export-counter", FALSE)>>

\* The object writes of a leader's bootstrap: the index put, then the
\* counter put if the index put exited zero.
BootstrapCalls(idx_ok, cnt_ok) ==
  IF idx_ok
    THEN <<Call("put", "ganesha-export-index", TRUE),
           Call("put", "ganesha-export-counter", cnt_ok)>>
    ELSE <<Call("put", "ganesha-export-index", FALSE)>>

\* The put of the object exited zero: the object is (re)written.
PutOk(calls, obj) == \E i \in DOMAIN calls : calls[i] = Call("put", obj, TRUE)

\* Faulty variant: the result of the counter put is not looked at
BootstrapDoneOnIndex(idx_ok, cnt_ok) == idx_ok

\* The try block reached self.peers.initialised_pool(): neither check_call
\* raised.
BootstrapDone(idx_ok, cnt_ok) == idx_ok /\ cnt_ok

setup_ganesha ==
  /\ Handling("setup_ganesha")
  /\ \E add_ok \in BOOLEAN, idx_ok \in BOOLEAN, cnt_ok \in BOOLEAN :
       LET join == IF JoinGate THEN <<Call("grace", "add", add_ok)>>
                   ELSE <<>>
           joined == Joined(add_ok)
       IN
       \/ \* the add exits non-zero: check_call raises, outside any try
          /\ ~joined
          /\ last' = Ran("setup_ganesha", "failed", join, NoResults)
          /\ Finish("setup_ganesha", "failed")
          /\ is_cluster_setup' = SetupAfterJoin(add_ok)
          /\ UNCHANGED <<in_grace, pool_initialised, index_obj, counter_obj>>
       \/ \* not the leader: return after the join
          /\ joined /\ ~BootstrapGate
          /\ last' = Ran("setup_ganesha", "ok", join, NoResults)
          /\ Finish("setup_ganesha", "ok")
          /\ is_cluster_setup' = IF JoinGate THEN SetupAfterJoin(add_ok)
                                 ELSE is_cluster_setup
          /\ in_grace' = IF JoinGate THEN TRUE ELSE in_grace
          /\ UNCHANGED <<pool_initialised, index_obj, counter_obj>>
       \/ \* the leader: index, counter, latch; a failing put defers
          /\ joined /\ BootstrapGate
          /\ LET boot == BootstrapCalls(idx_ok, cnt_ok)
                 done == BootstrapDone(idx_ok, cnt_ok)
             IN  /\ last' = Ran("setup_ganesha",
                                IF done THEN "ok" ELSE "deferred",
                                join \o boot
                                  \o (IF done
                                        THEN <<Call("initialised_pool", "",
                                                    TRUE)>>
                                        ELSE <<>>),
                                NoResults)
                 /\ Finish("setup_ganesha",
                           IF done THEN "ok" ELSE "deferred")
                 /\ index_obj' = IF PutOk(boot, "ganesha-export-index")
                                   THEN "empty" ELSE index_obj
                 /\ counter_obj' = IF PutOk(boot, "ganesha-export-counter")
                                     THEN CounterSeed ELSE counter_obj
                 /\ pool_initialised' = IF done THEN initialised_pool
                                        ELSE pool_initialised
          /\ is_cluster_setup' = IF JoinGate THEN SetupAfterJoin(add_ok)
                                 ELSE is_cluster_setup
          /\ in_grace' = IF JoinGate THEN TRUE ELSE in_grace
  /\ UNCHANGED <<is_started, reload_nonce, shares, envfacts, broker, history,
                 files>>

\* --------------------------------------------------- on_pool_initialised
\* What a failing 'systemctl restart nfs-ganesha' does to the run: the
\* CalledProcessError is caught and the event deferred.
PoolInitialisedOutcome(ok) == IF ok THEN "ok" ELSE "deferred"

on_pool_initialised ==
  /\ Handling("on_pool_initialised")
  /\ \E ok \in BOOLEAN :
       /\ last' = Ran("on_pool_initialised", PoolInitialisedOutcome(ok),
                      <<Call("restart", "nfs-ganesha", ok)>>, NoResults)
       /\ Finish("on_pool_initialised", PoolInitialisedOutcome(ok))
  /\ UNCHANGED <<stored, peerfacts, pool, envfacts, broker, history, in_grace,
                 files>>

\* ------------------------------------------------------ on_reload_nonce
\* Variant: a unit that has reloaded since the nonce last changed does not
\* signal again
ReloadOncePerNonce(ok) ==
  IF reloaded THEN <<>> ELSE <<Call("killall -HUP", "ganesha.nfsd", ok)>>

\* Faulty variant: the server is restarted instead of signalled
ReloadByRestart(ok) == <<Call("restart", "nfs-ganesha", ok)>>

\* subprocess.call(['killall', '-HUP', 'ganesha.nfsd']): the exit status is
\* not looked at.
ReloadCalls(ok) == <<Call("killall -HUP", "ganesha.nfsd", ok)>>

on_reload_nonce ==
  /\ Handling("on_reload_nonce")
  /\ \E ok \in BOOLEAN :
       last' = Ran("on_reload_nonce", "ok", ReloadCalls(ok), NoResults)
  /\ Finish("on_reload_nonce", "ok")
  /\ reloaded' = TRUE
  /\ UNCHANGED <<stored, peerfacts, pool, envfacts, broker, departed, in_grace,
                 files>>

\* -------------------------------------------------- create_share_action
\* Faulty variant: the leadership test is dropped
ShareGateOpen == TRUE

\* if not self.model.unit.is_leader(): event.fail(...)
ShareGate == is_leader

\* access_address(): the vip with an hacluster relation, else the ingress
\* address of the 'public' binding.
access_address(hacluster) == IF hacluster THEN "vip" ELSE "ingress_address"

\* GaneshaNfs.create_share: the export path of the n-th share
export_path(n) == n

\* self.peers.trigger_reload(): bumps the reload nonce
trigger_reload(nonce) == nonce + 1

\* Faulty variant: the reload is triggered before the share exists
ShareCallsReloadFirst(hacluster) ==
  <<Call("trigger_reload", "", TRUE), Call("create_share", "", TRUE),
    Call("access_address", IF hacluster THEN "hacluster" ELSE "public", TRUE),
    Call("set_results", "", TRUE)>>

\* The calls of a leader's run whose create_share returned, in order; the
\* results are built, access_address() included, after the reload trigger.
ShareCalls(hacluster) ==
  <<Call("create_share", "", TRUE), Call("trigger_reload", "", TRUE),
    Call("access_address", IF hacluster THEN "hacluster" ELSE "public", TRUE),
    Call("set_results", "", TRUE)>>

\* event.set_results({"message": ..., "path": ..., "ip": ...})
ShareResults(path, hacluster) ==
  [message |-> ShareCreatedMessage, path |-> path,
   ip |-> access_address(hacluster)]

create_share_action ==
  /\ Handling("create_share_action")
  /\ \/ /\ ~ShareGate
        /\ last' = Ran("create_share_action", "action_failed", <<>>,
                       [NoResults EXCEPT !.message = NotLeaderMessage])
        /\ Finish("create_share_action", "action_failed")
        /\ UNCHANGED <<reload_nonce, shares, reloaded>>
     \/ \* create_share raises
        /\ ShareGate
        /\ last' = Ran("create_share_action", "failed",
                       <<Call("create_share", "", FALSE)>>, NoResults)
        /\ Finish("create_share_action", "failed")
        /\ UNCHANGED <<reload_nonce, shares, reloaded>>
     \/ /\ ShareGate
        /\ shares < MaxShares /\ reload_nonce < MaxNonce
        /\ \E hacluster \in BOOLEAN :
             last' = Ran("create_share_action", "ok", ShareCalls(hacluster),
                         ShareResults(export_path(shares + 1), hacluster))
        /\ shares' = shares + 1
        /\ reload_nonce' = trigger_reload(reload_nonce)
        /\ reloaded' = FALSE
        /\ Finish("create_share_action", "ok")
  /\ UNCHANGED <<stored, pool_initialised, index_obj, counter_obj, envfacts,
                 broker, departed, in_grace, files>>

\* ------------------------------------------------------- environment
\* The ceph-client relation is joined: the broker can take requests.
BrokerBecomesAvailable ==
  /\ ~broker_available
  /\ broker_available' = TRUE
  /\ last' = Idle
  /\ UNCHANGED <<stored, peerfacts, pool, envfacts, pool_requested, history,
                 in_grace, files, queue, deferred>>

\* The ceph-client relation completes the pool request.
PoolsBecomeAvailable ==
  /\ pool_requested
  /\ ~pools_available
  /\ pools_available' = TRUE
  /\ last' = Idle
  /\ UNCHANGED <<stored, peerfacts, pool, is_leader, broker, history, in_grace,
                 files, queue, deferred>>

\* Juju gives this unit leadership or takes it away.
LeadershipChanges ==
  /\ is_leader' = ~is_leader
  /\ last' = Idle
  /\ UNCHANGED <<stored, peerfacts, pool, pools_available, broker, history,
                 in_grace, files, queue, deferred>>

\* A peer that holds leadership bootstraps the pool and sets the latch.
PeerBootstraps ==
  /\ ~is_leader /\ ~pool_initialised
  /\ index_obj' = "empty"
  /\ counter_obj' = CounterSeed
  /\ pool_initialised' = TRUE
  /\ last' = Idle
  /\ UNCHANGED <<stored, reload_nonce, shares, envfacts, broker, history,
                 in_grace, files, queue, deferred>>

\* A peer bumps the reload nonce.
PeerBumpsNonce ==
  /\ reload_nonce < MaxNonce
  /\ reload_nonce' = reload_nonce + 1
  /\ reloaded' = FALSE
  /\ last' = Idle
  /\ UNCHANGED <<stored, pool_initialised, pool, envfacts, broker, departed,
                 in_grace, files, queue, deferred>>

\* ------------------------------------------------------ specification
\* __init__: _stored.set_default(is_started=False, is_cluster_setup=False)
Init ==
  /\ is_started = FALSE
  /\ is_cluster_setup = FALSE
  /\ broker_available = FALSE
  /\ pool_requested = FALSE
  /\ pools_available = FALSE
  /\ is_leader \in BOOLEAN
  /\ pool_initialised = FALSE
  /\ reload_nonce = 0
  /\ in_grace = FALSE
  /\ departed = FALSE
  /\ reloaded = FALSE
  /\ index_obj = "absent"
  /\ counter_obj = 0
  /\ shares = 0
  /\ files = [f \in Files |-> Absent]
  /\ queue = <<>>
  /\ deferred = {}
  /\ last = Idle

Next ==
  \/ \E fact \in Facts : Emit(fact)
  \/ request_ceph_pool
  \/ render_config
  \/ setup_ganesha
  \/ on_departing
  \/ on_pool_initialised
  \/ on_reload_nonce
  \/ create_share_action
  \/ BrokerBecomesAvailable
  \/ PoolsBecomeAvailable
  \/ LeadershipChanges
  \/ PeerBootstraps
  \/ PeerBumpsNonce

Spec == Init /\ [][Next]_vars

\* ---------------------------------------------------------- scheduling
\* The run of a redelivered notice ends without a failing command and
\* without deferring again.
Retried == queue # <<>> /\ Head(queue).redelivered

RenderSucceeds == Retried /\ render_config /\ last'.outcome = "ok"

SetupSucceeds == Retried /\ setup_ganesha /\ last'.outcome = "ok"

RestartSucceeds == Retried /\ on_pool_initialised /\ last'.outcome = "ok"

\* The runtime keeps dispatching (so deferred notices are redelivered), a
\* dispatched handler runs, and a command that is retried again and again
\* does not fail every time.
Fairness ==
  /\ WF_vars(\E fact \in Facts : Emit(fact))
  /\ WF_vars(request_ceph_pool)
  /\ WF_vars(render_config)
  /\ WF_vars(setup_ganesha)
  /\ WF_vars(on_departing)
  /\ WF_vars(on_pool_initialised)
  /\ WF_vars(on_reload_nonce)
  /\ WF_vars(create_share_action)
  /\ SF_vars(RenderSucceeds)
  /\ SF_vars(SetupSucceeds)
  /\ SF_vars(RestartSucceeds)

LiveSpec == Spec /\ Fairness

\* --------------------------------------------------------- properties
RanHandler(h) == last.handler = h

\* The files whose content the last run changed.
ChangedInRun == {f \in Files : last.pre.files[f] # files[f]}

Restarts == Len(CallsOf(last.calls, "restart"))

\* Some command of the last run exited non-zero.
SomeCallFailed == \E i \in DOMAIN last.calls : ~last.calls[i].ok

GraceAddFailed ==
  \E i \in DOMAIN last.calls : last.calls[i] = Call("grace", "add", FALSE)

AllRendered == Len(CallsOf(last.calls, "render")) = Len(RestartMapKeys)
                 /\ \A i \in DOMAIN last.calls :
                      last.calls[i].cmd = "render" => last.calls[i].ok

\* C1 (as claimed): once the peer latch pool_initialised is true, no run of
\* setup_ganesha writes the index object or the counter object again.
C1_LatchGuardsBootstrap ==
  (RanHandler("setup_ganesha") /\ last.pre.pool_initialised)
    => ~Issued(last.calls, "put")

\* C2 (as claimed): a run of on_departing always issues the grace 'remove'
\* call, and afterwards is_cluster_setup is false whether the call succeeded
\* or failed.
C2_LeaveAlwaysClears ==
  RanHandler("on_departing")
    => /\ \E i \in DOMAIN last.calls :
            last.calls[i].cmd = "grace" /\ last.calls[i].arg = "remove"
       /\ is_cluster_setup = FALSE

\* C3 (as claimed): when the grace 'add' call fails in setup_ganesha,
\* is_cluster_setup stays false, the event is deferred (the run does not end
\* in an unhandled failure) and the run does not go on to the bootstrap.
C3_JoinFailureDeferred ==
  (RanHandler("setup_ganesha") /\ GraceAddFailed)
    => /\ is_cluster_setup = FALSE
       /\ last.outcome = "deferred"
       /\ ~Issued(last.calls, "put")

\* C4 (as claimed): in every handler run, nfs-ganesha is restarted if and
\* only if a tracked config file changed content in that run, and never more
\* than once.
C4_RestartIffChanged ==
  ~RanHandler("none")
    => /\ (Restarts > 0) <=> (ChangedInRun # {})
       /\ Restarts <= 1

\* C4 (amended): a run of render_config that rendered every tracked file
\* restarts nfs-ganesha exactly once if a tracked file changed content in the
\* run and not at all if none did; a run of render_config that deferred or
\* raised restarts nothing; on_pool_initialised issues one restart whatever
\* the files are; no other handler restarts the service.
C4_RenderRestartIffChanged ==
  /\ (RanHandler("render_config") /\ AllRendered)
       => Restarts = IF ChangedInRun # {} THEN 1 ELSE 0
  /\ (RanHandler("render_config") /\ ~AllRendered) => Restarts = 0
  /\ RanHandler("on_pool_initialised") => Restarts = 1 /\ ChangedInRun = {}
  /\ ~(RanHandler("render_config") \/ RanHandler("on_pool_initialised"))
       => Restarts = 0

\* C4 witness: a render run in which two or more files changed.
C4_Witness ==
  /\ RanHandler("render_config") /\ AllRendered
  /\ Cardinality(ChangedInRun) >= 2
  /\ Restarts = 1

\* C5 (as claimed): a run of on_reload_nonce re-renders the configuration
\* and signals the NFS server to reload, without restarting it.
C5_ReloadRerendersAndSignals ==
  RanHandler("on_reload_nonce")
    => /\ Issued(last.calls, "render")
       /\ Issued(last.calls, "killall -HUP")
       /\ Restarts = 0

\* C5 (amended): a run of on_reload_nonce signals the NFS server to reload
\* (killall -HUP ganesha.nfsd, once) and does nothing else: it renders no
\* file, leaves the files and the stored flags as they were, restarts
\* nothing, and returns whatever the signal's exit status.
C5_ReloadSignalsOnly ==
  RanHandler("on_reload_nonce")
    => /\ Len(last.calls) = 1
       /\ last.calls[1].cmd = "killall -HUP"
       /\ last.calls[1].arg = "ganesha.nfsd"
       /\ last.outcome = "ok"
       /\ files = last.pre.files
       /\ is_started = last.pre.is_started
       /\ is_cluster_setup = last.pre.is_cluster_setup

\* C5 witness: a reload handled after a nonce bump, the signal failing.
C5_Witness ==
  /\ RanHandler("on_reload_nonce")
  /\ last.pre.reload_nonce > 0
  /\ SomeCallFailed

\* C6: create-share on a unit that is not the leader fails with the explicit
\* message, issues no call (no share, no nonce bump, no results) and changes
\* neither the stored flags, the latch, the nonce nor the shares.
C6_LeadershipGating ==
  (RanHandler("create_share_action") /\ ~last.leader)
    => /\ last.outcome = "action_failed"
       /\ last.results = [NoResults EXCEPT !.message = NotLeaderMessage]
       /\ last.calls = <<>>
       /\ is_started = last.pre.is_started
       /\ is_cluster_setup = last.pre.is_cluster_setup
       /\ pool_initialised = last.pre.pool_initialised
       /\ reload_nonce = last.pre.reload_nonce
       /\ shares = last.pre.shares

\* C6 witness: a non-leader ran the action.
C6_Witness ==
  /\ RanHandler("create_share_action") /\ ~last.leader
  /\ last.outcome = "action_failed"

\* C7: on the leader, a run of create-share whose share creation succeeded
\* completes, having created the share, then bumped the nonce exactly once,
\* then set results holding "Share created", the export path of the share
\* just created and the advertised address; in no run of any handler does
\* the nonce change unless a share was created in it.
C7_CreateShareOnLeader ==
  /\ (RanHandler("create_share_action") /\ last.leader)
       => /\ Len(last.calls) >= 1 /\ last.calls[1].cmd = "create_share"
          /\ last.calls[1].ok
               => /\ last.outcome = "ok"
                  /\ shares = last.pre.shares + 1
                  /\ Len(CallsOf(last.calls, "trigger_reload")) = 1
                  /\ reload_nonce = last.pre.reload_nonce + 1
                  /\ \E i, j, k \in DOMAIN last.calls :
                       /\ i < j /\ j < k
                       /\ last.calls[i].cmd = "create_share"
                       /\ last.calls[j].cmd = "trigger_reload"
                       /\ last.calls[k].cmd = "set_results"
                  /\ last.results.message = ShareCreatedMessage
                  /\ last.results.path = export_path(shares)
                  /\ \E a \in DOMAIN last.calls :
                       /\ last.calls[a].cmd = "access_address"
                       /\ last.results.ip
                            = access_address(last.calls[a].arg = "hacluster")
          /\ ~last.calls[1].ok
               => /\ reload_nonce = last.pre.reload_nonce
                  /\ ~Issued(last.calls, "trigger_reload")
  /\ (~RanHandler("none") /\ reload_nonce # last.pre.reload_nonce)
       => /\ RanHandler("create_share_action")
          /\ Issued(last.calls, "create_share")
          /\ last.calls[1].ok

\* C7 witness: the leader created a share behind a virtual address.
C7_Witness ==
  /\ RanHandler("create_share_action") /\ last.leader
  /\ last.outcome = "ok"
  /\ last.results.ip = access_address(TRUE)
  /\ reload_nonce = last.pre.reload_nonce + 1

\* C8 (as claimed): a run of render_config while the pool is not available
\* writes no file, restarts nothing, leaves is_started as it was and defers;
\* and is_started becomes true only in a run of render_config in which the
\* rendering and the restart it triggered went through without failure.
C8_RenderGate ==
  /\ (RanHandler("render_config") /\ ~last.pre.pools_available)
       => /\ last.calls = <<>>
          /\ files = last.pre.files
          /\ is_started = last.pre.is_started
          /\ last.outcome = "deferred"
  /\ (~RanHandler("none") /\ is_started /\ ~last.pre.is_started)
       => /\ RanHandler("render_config")
          /\ last.outcome = "ok"
          /\ ~SomeCallFailed

\* C9 (as claimed): a restart command that fails makes its handler fail; it
\* is never swallowed or turned into a deferral.
C9_RestartFailureFatal ==
  (\E i \in DOMAIN last.calls :
      last.calls[i].cmd = "restart" /\ ~last.calls[i].ok)
    => last.outcome = "failed"

\* C10: whenever is_cluster_setup is true, this node's hostname is in the
\* grace membership: its last successful grace call was an 'add'.
C10_SetupImpliesInGrace == is_cluster_setup => in_grace

\* C10 witness: a member whose 'remove' failed on departing is still set up.
C10_Witness ==
  /\ is_cluster_setup /\ in_grace
  /\ RanHandler("on_departing") /\ last.outcome = "failed"

GraceAdds ==
  Len(SelectSeq(last.calls, LAMBDA c : c.cmd = "grace" /\ c.arg = "add"))

\* C11: a run of setup_ganesha that starts with is_cluster_setup true issues
\* no grace 'add' call and leaves the flag true; a run that starts with it
\* false issues exactly one 'add', and if that succeeds the flag is true
\* afterwards: redelivery after one successful join adds nothing more.
C11_JoinIdempotent ==
  RanHandler("setup_ganesha")
    => /\ last.pre.is_cluster_setup
            => GraceAdds = 0 /\ is_cluster_setup
       /\ ~last.pre.is_cluster_setup
            => /\ GraceAdds = 1
               /\ last.calls[1] = Call("grace", "add", is_cluster_setup)

\* C11 witness: the fact is redelivered to a unit that has already joined.
C11_Witness ==
  /\ RanHandler("setup_ganesha")
  /\ last.pre.is_cluster_setup /\ in_grace
  /\ GraceAdds = 0

Reloads == Len(CallsOf(last.calls, "killall -HUP"))

\* C12 (as claimed): a node signals one reload per change of the nonce: a run
\* of on_reload_nonce on a node that has already reloaded since the nonce
\* last changed (the fact delivered again, or a second bump that arrived
\* before the first delivery was handled) signals nothing.
C12_OneReloadPerNonceChange ==
  (RanHandler("on_reload_nonce") /\ last.pre.reloaded) => Reloads = 0

\* C12 (amended): every handled delivery of the reload-nonce fact signals
\* exactly one reload, also on a node that has already reloaded since the
\* nonce last changed; no other handler signals a reload.
C12_OneReloadPerDelivery ==
  /\ RanHandler("on_reload_nonce") => Reloads = 1 /\ reloaded
  /\ ~RanHandler("on_reload_nonce") => Reloads = 0

\* C12 witness: the fact is handled a second time with the nonce unchanged.
C12_Witness ==
  /\ RanHandler("on_reload_nonce")
  /\ last.pre.reloaded /\ reload_nonce = last.pre.reload_nonce
  /\ Reloads = 1

\* C13 (as claimed): every handler that finds its dependency fact missing
\* defers the event: request_ceph_pool when the broker is not available and
\* render_config when the pool is not available.
C13_NotReadyDeferred ==
  /\ (RanHandler("request_ceph_pool") /\ ~last.pre.broker_available)
       => last.outcome = "deferred"
  /\ (RanHandler("render_config") /\ ~last.pre.pools_available)
       => last.outcome = "deferred"

\* C13 (amended): render_config defers the event when the pool is not
\* available, and its notice is kept for redelivery; request_ceph_pool, when
\* the broker is not available, returns without deferring, having sent no
\* request.
C13_NotReadyRenderDefers ==
  /\ (RanHandler("render_config") /\ ~last.pre.pools_available)
       => /\ last.outcome = "deferred"
          /\ last.calls = <<>>
          /\ "render_config" \in deferred
  /\ (RanHandler("request_ceph_pool") /\ ~last.pre.broker_available)
       => /\ last.outcome = "ok"
          /\ last.calls = <<>>
          /\ ~pool_requested
          /\ "request_ceph_pool" \notin deferred

\* C13 witness: the render was deferred and the pool request returned early
\* in the same dispatch.
C13_Witness ==
  /\ RanHandler("request_ceph_pool") /\ ~last.pre.broker_available
  /\ last.outcome = "ok"
  /\ "render_config" \in deferred /\ ~pools_available

PutIndex(i) == last.calls[i].cmd = "put"
                 /\ last.calls[i].arg = "ganesha-export-index"

PutCounter(i) == last.calls[i].cmd = "put"
                   /\ last.calls[i].arg = "ganesha-export-counter"

\* C14: in every run the counter object is put only after the index put of
\* the same run has succeeded, and the counter object (seeded 1000) never
\* exists in the pool while the index object has never been written.
C14_CounterAfterIndex ==
  /\ \A j \in DOMAIN last.calls :
       PutCounter(j)
         => \E i \in 1..(j - 1) : PutIndex(i) /\ last.calls[i].ok
  /\ counter_obj # 0 => counter_obj = CounterSeed /\ index_obj # "absent"

\* C14 witness: a retry after a partial failure (index written, counter
\* failed) writes the counter behind a fresh index put.
C14_Witness ==
  /\ RanHandler("setup_ganesha") /\ last.redelivered
  /\ \E j \in DOMAIN last.calls : PutCounter(j) /\ last.calls[j].ok
  /\ counter_obj = CounterSeed /\ index_obj = "empty"

Puts == Len(CallsOf(last.calls, "put"))

LatchSetInRun ==
  last.handler # "none" /\ pool_initialised /\ ~last.pre.pool_initialised

\* C15: a unit that is not the leader when it handles pools-available writes
\* neither the index nor the counter object and does not set the
\* pool_initialised latch; a handler run that sets the latch is a
\* setup_ganesha run of a unit that was leader in that run.
C15_LeaderOnlyBootstrap ==
  /\ (RanHandler("setup_ganesha") /\ ~last.leader)
       => /\ Puts = 0
          /\ ~Issued(last.calls, "initialised_pool")
          /\ pool_initialised = last.pre.pool_initialised
  /\ LatchSetInRun => RanHandler("setup_ganesha") /\ last.leader

\* C15 witness: a non-leader joins the grace database and stops there.
C15_Witness ==
  /\ RanHandler("setup_ganesha") /\ ~last.leader /\ last.outcome = "ok"
  /\ GraceAdds = 1 /\ is_cluster_setup /\ Puts = 0 /\ ~pool_initialised

\* A run of setup_ganesha that got as far as the bootstrap of the pool.
BootstrapAttempt == RanHandler("setup_ganesha") /\ Puts > 0

PutFailed ==
  \E i \in DOMAIN last.calls : last.calls[i].cmd = "put" /\ ~last.calls[i].ok

\* C16: when the index put or the counter put fails in a leader's bootstrap
\* attempt, the latch is not set in that attempt, the event is deferred, and
\* is_started and is_cluster_setup keep the values they had before the
\* failing write (is_cluster_setup is true by then); the latch is set only
\* in an attempt whose two puts both succeeded; a redelivered attempt starts
\* again at the index put and goes on to the counter put.
C16_BootstrapFailureDeferred ==
  /\ (BootstrapAttempt /\ PutFailed)
       => /\ last.outcome = "deferred" /\ "setup_ganesha" \in deferred
          /\ ~Issued(last.calls, "initialised_pool")
          /\ pool_initialised = last.pre.pool_initialised
          /\ is_started = last.pre.is_started
          /\ is_cluster_setup
  /\ LatchSetInRun
       => /\ PutOk(last.calls, "ganesha-export-index")
          /\ PutOk(last.calls, "ganesha-export-counter")
          /\ ~PutFailed
  /\ (RanHandler("setup_ganesha") /\ last.redelivered /\ last.leader
        /\ ~GraceAddFailed)
       => /\ \E i \in DOMAIN last.calls : PutIndex(i)
          /\ PutOk(last.calls, "ganesha-export-index")
               => \E j \in DOMAIN last.calls : PutCounter(j)

\* C16 witness: a redelivered attempt puts the index again and fails at the
\* counter once more: index written, no counter, no latch, deferred again.
C16_Witness ==
  /\ BootstrapAttempt /\ last.redelivered /\ Puts = 2 /\ PutFailed
  /\ last.outcome = "deferred" /\ "setup_ganesha" \in deferred
  /\ index_obj = "empty" /\ counter_obj = 0 /\ ~pool_initialised

\* C17 (as claimed): once the unit has handled a departing fact, no later
\* handler run issues a grace 'add' or turns is_cluster_setup back to true.
C17_DepartureTerminal ==
  (last.handler # "none" /\ last.pre.departed)
    => /\ GraceAdds = 0
       /\ is_cluster_setup => last.pre.is_cluster_setup

\* C19: setup_ganesha puts the index or counter object, or sets the latch,
\* only with is_cluster_setup true: the unit had joined before the run or the
\* run's own grace 'add' succeeded first; a run whose add fails writes
\* nothing and leaves the latch alone.
C19_JoinPrecedesBootstrap ==
  /\ (RanHandler("setup_ganesha")
        /\ (Puts > 0 \/ Issued(last.calls, "initialised_pool")
              \/ LatchSetInRun))
       => /\ is_cluster_setup
          /\ \/ last.pre.is_cluster_setup
             \/ last.calls[1] = Call("grace", "add", TRUE)
  /\ (RanHandler("setup_ganesha") /\ GraceAddFailed)
       => /\ Puts = 0 /\ ~Issued(last.calls, "initialised_pool")
          /\ pool_initialised = last.pre.pool_initialised

\* C19 witness: a leader whose add fails stops before the bootstrap.
C19_Witness ==
  /\ RanHandler("setup_ganesha") /\ last.leader /\ GraceAddFailed
  /\ ~is_cluster_setup /\ Puts = 0 /\ ~pool_initialised
  /\ index_obj = "absent"

RenderDeferred == RanHandler("render_config") /\ last.outcome = "deferred"

BootstrapDeferred == RanHandler("setup_ganesha") /\ last.outcome = "deferred"

RestartDeferred ==
  RanHandler("on_pool_initialised") /\ last.outcome = "deferred"

\* C18 (as claimed): under fair redelivery, with the pools eventually
\* available for good and commands eventually succeeding, a unit whose render
\* was deferred reaches is_started, a leader whose bootstrap was deferred
\* sets the pool_initialised latch, and no deferred notice is held forever.
C18_DeferralConverges ==
  /\ <>[]pools_available => (RenderDeferred ~> is_started)
  /\ BootstrapDeferred ~> (pool_initialised /\ "setup_ganesha" \notin deferred)
  /\ RestartDeferred ~> ("on_pool_initialised" \notin deferred)

\* C18 (amended): as claimed, except that the deferred bootstrap ends with
\* the latch set only if the unit is still leader when the notice is
\* redelivered; redelivered on a non-leader, setup_ganesha returns at the
\* leader check and the notice is dropped without the latch being set.
C18_DeferralConvergesWhileLeader ==
  /\ <>[]pools_available => (RenderDeferred ~> is_started)
  /\ BootstrapDeferred
       ~> /\ "setup_ganesha" \notin deferred
          /\ pool_initialised \/ ~is_leader
  /\ RestartDeferred ~> ("on_pool_initialised" \notin deferred)

\* C18 witness: the redelivery of a deferred bootstrap sets the latch.
C18_Witness ==
  /\ RanHandler("setup_ganesha") /\ last.redelivered /\ last.leader
  /\ last.outcome = "ok" /\ pool_initialised /\ ~last.pre.pool_initialised
  /\ is_started /\ "setup_ganesha" \notin deferred

====
